---- MODULE Spec2Model ----
(***************************************************************************)
(* A model of GoAIAgent (src/main.go): the conversation loop Agent.Run,    *)
(* the dispatcher Agent.executeTool, and the tool handlers it dispatches   *)
(* to.                                                                     *)
(*                                                                         *)
(* Go strings are sequences of tokens.  A token is a single character      *)
(* ("r", " ", "/") wherever the code looks inside the string, and a whole  *)
(* fixed text ("tool not found") where the code only passes it on.         *)
(* Concatenation and formatting are \o.                                    *)
(***************************************************************************)
EXTENDS Integers, Sequences, FiniteSets, TLC

VARIABLES
    conversation,   \* Run: conversation (main.go:64)
    readUserInput,  \* Run: readUserInput (main.go:66)
    pc,             \* Run: position in the loop body
    message,        \* Run: message.Content of the current reply (main.go:78)
    idx,            \* Run: position of the range loop over message.Content
    toolResults,    \* Run: toolResults (main.go:84)
    ret,            \* how Run ended: "running", "nil", "err" or "panic"
    nInfer,         \* number of inference calls made so far
    stdin,          \* lines of os.Stdin not yet read by the process
    scanBuf,        \* lines read from os.Stdin and held by the bufio.Scanner
    fs,             \* the file system below the working directory
    executed,       \* commands handed to bash by CommandExecution
    trace,          \* every interaction with a collaborator, in order
    cmdInput,       \* SpecCmd: the raw arguments under test
    cmdOut,         \* SpecCmd: what CommandExecution did with them
    fileCall,       \* SpecFiles: the file tool and raw arguments under test
    fileOut         \* SpecFiles: what the handler did with them

vars == <<conversation, readUserInput, pc, message, idx, toolResults, ret,
          nInfer, stdin, scanBuf, fs, executed, trace, cmdInput, cmdOut,
          fileCall, fileOut>>

(***************************************************************************)
(* Strings                                                                 *)
(***************************************************************************)

\* A fixed text that the code never looks inside.
L(s) == <<s>>

\* unicode.ToLower on the characters the model uses.
LowerChar(c) ==
    CASE c = "R" -> "r"
      [] c = "M" -> "m"
      [] c = "C" -> "c"
      [] c = "D" -> "d"
      [] c = "S" -> "s"
      [] c = "U" -> "u"
      [] c = "Y" -> "y"
      [] c = "E" -> "e"
      [] c = "N" -> "n"
      [] c = "O" -> "o"
      [] OTHER -> c

\* strings.ToLower
ToLower(s) == [i \in 1..Len(s) |-> LowerChar(s[i])]

\* strings.Contains
Contains(s, sub) ==
    \E i \in 0..(Len(s) - Len(sub)) : SubSeq(s, i + 1, i + Len(sub)) = sub

\* n copies of the character c
Repeat(c, n) == [i \in 1..n |-> c]

\* the characters of the model that unicode.IsSpace accepts
IsSpace(c) == c = " "

\* the number of leading spaces of s
RECURSIVE LeadingSpaces(_)
LeadingSpaces(s) ==
    IF s # <<>> /\ IsSpace(Head(s)) THEN 1 + LeadingSpaces(Tail(s)) ELSE 0

\* the length of the longest prefix of s without a space
RECURSIVE TokenLen(_)
TokenLen(s) ==
    IF s # <<>> /\ ~IsSpace(Head(s)) THEN 1 + TokenLen(Tail(s)) ELSE 0

Reverse(s) == [i \in 1..Len(s) |-> s[Len(s) + 1 - i]]

\* strings.TrimSpace
TrimSpace(s) ==
    LET a == LeadingSpaces(s)
        b == LeadingSpaces(Reverse(s))
    IN  IF a = Len(s) THEN <<>> ELSE SubSeq(s, a + 1, Len(s) - b)

(***************************************************************************)
(* encoding/json: the raw arguments of a tool call and json.Unmarshal into *)
(* one of the input structs.  A raw message is a JSON object, whose fields *)
(* are strings, numbers or absent, or a JSON array.                        *)
(***************************************************************************)

FieldNames == {"path", "old_str", "new_str", "command", "url"}

JStr(s) == [t |-> "str", s |-> s]
JNum == [t |-> "num", s |-> <<>>]
JAbsent == [t |-> "absent", s |-> <<>>]

\* the object with the fields of the record r
JObject(r) ==
    [kind |-> "object",
     fields |-> [n \in FieldNames |-> IF n \in DOMAIN r THEN r[n] ELSE JAbsent]]
JEmptyObject == [kind |-> "object", fields |-> [n \in FieldNames |-> JAbsent]]
JArray == [kind |-> "array", fields |-> [n \in FieldNames |-> JAbsent]]

\* json.Unmarshal(input, &v) for a struct v whose fields, all strings, are names:
\* an array, or a number where the struct has a string, is an error; a field
\* the object does not have keeps its zero value "".
Unmarshal(input, names) ==
    [err |-> \/ input.kind # "object"
             \/ \E n \in names : input.fields[n].t = "num",
     msg |-> L("json: cannot unmarshal into Go value"),
     val |-> [n \in names |->
                IF input.kind = "object" /\ input.fields[n].t = "str"
                THEN input.fields[n].s ELSE <<>>]]

(***************************************************************************)
(* What a handler does: it returns (response, err) or panics, and leaves   *)
(* the file system, the standard input and the list of executed commands   *)
(* as the outcome says.  A handler is the set of its possible outcomes.    *)
(***************************************************************************)

\* the environment a handler runs in
Env(f, in, ex) == [fs |-> f, stdin |-> in, executed |-> ex]

Event(e, x) == [ev |-> e, x |-> x]

\* return response, nil
Ok(response, env, events) ==
    [kind |-> "return", response |-> response, err |-> FALSE, msg |-> <<>>,
     env |-> env, events |-> events]

\* return "", err
Fail(msg, env, events) ==
    [kind |-> "return", response |-> <<>>, err |-> TRUE, msg |-> msg,
     env |-> env, events |-> events]

\* panic(err)
Panic(msg, env, events) ==
    [kind |-> "panic", response |-> <<>>, err |-> TRUE, msg |-> msg,
     env |-> env, events |-> events]


(***************************************************************************)
(* The file system below the working directory.  A path is a sequence of   *)
(* components; fs maps each path of FsPaths to a node.                     *)
(***************************************************************************)

FileNames == {<<"a">>, <<"d">>}
FsPaths == {<<n>> : n \in FileNames} \cup {<<n, m>> : n, m \in FileNames}

NoNode == [kind |-> "none", content |-> <<>>]
DirNode == [kind |-> "dir", content |-> <<>>]
FileNode(c) == [kind |-> "file", content |-> c]

\* the components of a path string: the texts between its separators
RECURSIVE SplitPath(_)
SplitPath(s) ==
    LET n == CHOOSE k \in 0..Len(s) :
                 /\ \A i \in 1..k : s[i] # "/"
                 /\ (k = Len(s) \/ s[k + 1] = "/")
    IN  IF n = Len(s) THEN <<s>>
        ELSE <<SubSeq(s, 1, n)>> \o SplitPath(SubSeq(s, n + 2, Len(s)))

\* the components the kernel walks: empty ones and "." name no step
Components(s) == SelectSeq(SplitPath(s), LAMBDA c : c # <<>> /\ c # <<".">>)

\* what the kernel finds at a path: "dir", "file", "enoent" or "enotdir"
RECURSIVE Resolve(_, _)
Resolve(f, comps) ==
    IF comps = <<>> THEN "dir"
    ELSE LET parent == Resolve(f, SubSeq(comps, 1, Len(comps) - 1))
         IN  IF parent = "dir"
             THEN IF comps \in DOMAIN f /\ f[comps].kind # "none"
                  THEN f[comps].kind ELSE "enoent"
             ELSE IF parent = "file" THEN "enotdir" ELSE parent

\* stat of a path string; the empty path names nothing, and a path that
\* ends in a separator names a directory or nothing
Stat(f, path) ==
    IF path = <<>> THEN "enoent"
    ELSE LET st == Resolve(f, Components(path))
         IN  IF st = "file" /\ path[Len(path)] = "/" THEN "enotdir" ELSE st

\* os.ReadFile
OsReadFile(f, path) ==
    LET st == Stat(f, path)
    IN  IF st = "file"
        THEN [err |-> FALSE, notExist |-> FALSE, msg |-> <<>>,
              content |-> f[Components(path)].content]
        ELSE [err |-> TRUE, notExist |-> st = "enoent",
              msg |-> CASE st = "dir" ->
                             L("read ") \o path \o L(": is a directory")
                        [] st = "enotdir" ->
                             L("open ") \o path \o L(": not a directory")
                        [] OTHER ->
                             L("open ") \o path \o L(": no such file or directory"),
              content |-> <<>>]

(***************************************************************************)
(* read_file                                                               *)
(***************************************************************************)

ReadFile(input, env) ==
    LET readFileInput == Unmarshal(input, {"path"})
    IN  IF readFileInput.err
        THEN {Panic(readFileInput.msg, env, <<>>)}
        ELSE LET r == OsReadFile(env.fs, readFileInput.val.path)
             IN  IF r.err THEN {Fail(r.msg, env, <<>>)}
                 ELSE {Ok(r.content, env, <<>>)}

(***************************************************************************)
(* command_execution                                                       *)
(***************************************************************************)

\* the denylist, in the order the code tries it
disallowed ==
    << <<"r", "m", " ">>,
       <<"s", "h", "u", "t", "d", "o", "w", "n">>,
       <<"r", "e", "b", "o", "o", "t">>,
       <<"k", "i", "l", "l", " ">>,
       <<"p", "a", "s", "s", "w", "d">>,
       <<"c", "h", "o", "w", "n">>,
       <<"c", "h", "m", "o", "d">>,
       <<"s", "u", "d", "o">>,
       <<"s", "u">> >>

MaxCommandLen == 256

\* %q
Quote(s) == <<"\"">> \o s \o <<"\"">>

\* fmt.Scanln(&confirmation) on the lines of os.Stdin: the first token of the
\* first line; the line is used up unless something follows the token, and
\* then the character that showed it is lost and the rest stays unread.
Scanln(in) ==
    IF in = <<>> THEN [token |-> <<>>, stdin |-> <<>>]
    ELSE LET line == Head(in)
             a == LeadingSpaces(line)
             rest1 == SubSeq(line, a + 1, Len(line))
             n == TokenLen(rest1)
             rest2 == SubSeq(rest1, n + 1, Len(rest1))
             b == LeadingSpaces(rest2)
         IN  IF a = Len(line) \/ b = Len(rest2)
             THEN [token |-> SubSeq(rest1, 1, n), stdin |-> Tail(in)]
             ELSE [token |-> SubSeq(rest1, 1, n),
                   stdin |-> <<SubSeq(rest2, b + 2, Len(rest2))>> \o Tail(in)]

\* what bash can answer: its combined output, and whether it exited with 0
ExecResults ==
    {[ok |-> TRUE, output |-> L("<output>")],
     [ok |-> FALSE, output |-> L("<output>")]}

\* LowerCmd with the command taken as it is written
LowerCmdAsWritten(command) == command

\* main.go:337: lowerCmd := strings.ToLower(commandInput.Command)
LowerCmd(command) == ToLower(command)

\* the guardrails of CommandExecution (main.go:329-354): the error a command
\* is rejected with, or <<>> when it passes them all
Guardrail(command) ==
    LET lowerCmd == LowerCmd(command)
        hits == {i \in 1..Len(disallowed) : Contains(lowerCmd, disallowed[i])}
    IN  IF command = <<>> THEN L("command cannot be empty")
        ELSE IF hits # {}
        THEN L("command contains disallowed operation: ")
                 \o Quote(disallowed[CHOOSE i \in hits : \A j \in hits : i <= j])
        ELSE IF Contains(lowerCmd, <<"c", "d", " ">>)
        THEN L("changing directories is not allowed")
        ELSE IF Len(command) > MaxCommandLen THEN L("command too long")
        ELSE IF Contains(lowerCmd, <<"/">>) \/ Contains(lowerCmd, <<".", ".">>)
        THEN L("command cannot access files outside the current working directory")
        ELSE <<>>

\* Confirmed with every answer taken for a yes
ConfirmedAlways(confirmation) == TRUE

\* the confirmation test of CommandExecution (main.go:361)
Confirmed(confirmation) == ToLower(confirmation) = <<"y", "e", "s">>

CommandExecution(input, env) ==
    LET commandInput == Unmarshal(input, {"command"})
        command == commandInput.val.command
        rejected == Guardrail(command)
        scan == Scanln(env.stdin)
        asked == <<Event("print", L("Executing command: ") \o command),
                   Event("print", L("Are you sure you want to execute this command? (yes/no): ")),
                   Event("scanln", scan.token)>>
        envAsked == Env(env.fs, scan.stdin, env.executed)
        envRun == Env(env.fs, scan.stdin, Append(env.executed, command))
    IN  IF commandInput.err THEN {Fail(commandInput.msg, env, <<>>)}
        ELSE IF rejected # <<>> THEN {Fail(rejected, env, <<>>)}
        ELSE IF ~Confirmed(scan.token)
        THEN {Fail(L("command execution cancelled by user"), envAsked, asked)}
        ELSE {IF r.ok
              THEN Ok(r.output, envRun,
                      asked \o <<Event("exec", command),
                                 Event("print", L("Command output: ") \o r.output)>>)
              ELSE Fail(L("command execution failed: ") \o L("exit status 1")
                            \o L("\nOutput: ") \o r.output,
                        envRun,
                        asked \o <<Event("exec", command),
                                   Event("print", L("Command output: ") \o r.output)>>)
              : r \in ExecResults}


(***************************************************************************)
(* list_files                                                              *)
(***************************************************************************)

\* the names of a directory in the order filepath.Walk reads them
SortedNames == << <<"a">>, <<"d">> >>

\* path.Join of components
RECURSIVE JoinPath(_)
JoinPath(comps) ==
    IF comps = <<>> THEN <<>>
    ELSE IF Len(comps) = 1 THEN comps[1]
    ELSE comps[1] \o <<"/">> \o JoinPath(Tail(comps))

\* a walk that does not descend: the entries of the directory itself only
RECURSIVE WalkDirFlat(_, _, _)
WalkDirFlat(f, dirComps, i) ==
    IF i > Len(SortedNames) THEN <<>>
    ELSE LET p == Append(dirComps, SortedNames[i])
             k == IF p \in DOMAIN f THEN f[p].kind ELSE "none"
         IN  (IF k = "none" THEN <<>> ELSE <<p>>)
             \o WalkDirFlat(f, dirComps, i + 1)

\* filepath.Walk below the directory dirComps, from its i-th name on: every
\* entry, then what is below it, in lexical order
RECURSIVE WalkDir(_, _, _)
WalkDir(f, dirComps, i) ==
    IF i > Len(SortedNames) THEN <<>>
    ELSE LET p == Append(dirComps, SortedNames[i])
             k == IF p \in DOMAIN f THEN f[p].kind ELSE "none"
         IN  (IF k = "none" THEN <<>>
              ELSE <<p>> \o (IF k = "dir" THEN WalkDir(f, p, 1) ELSE <<>>))
             \o WalkDir(f, dirComps, i + 1)

\* the callback of ListFiles (main.go:198-216) on one visited path
ListEntry(f, root, p) ==
    LET relPath == JoinPath(SubSeq(p, Len(root) + 1, Len(p)))
    IN  IF f[p].kind = "dir" THEN relPath \o <<"/">> ELSE relPath

\* json.Marshal of a []string; a nil slice is null
RECURSIVE JoinQuoted(_)
JoinQuoted(files) ==
    IF files = <<>> THEN <<>>
    ELSE IF Len(files) = 1 THEN Quote(files[1])
    ELSE Quote(files[1]) \o <<",">> \o JoinQuoted(Tail(files))

JsonMarshal(files) ==
    IF files = <<>> THEN L("null") ELSE <<"[">> \o JoinQuoted(files) \o <<"]">>

\* the files slice ListFiles builds for a directory that exists
ListedFiles(f, dir) ==
    LET root == Components(dir)
        visited == IF Stat(f, dir) = "dir" THEN WalkDir(f, root, 1) ELSE <<>>
    IN  [i \in 1..Len(visited) |-> ListEntry(f, root, visited[i])]

ListFiles(input, env) ==
    LET listFilesInput == Unmarshal(input, {"path"})
        dir == IF listFilesInput.val.path # <<>>
               THEN listFilesInput.val.path ELSE <<".">>
        st == Stat(env.fs, dir)
    IN  IF listFilesInput.err THEN {Panic(listFilesInput.msg, env, <<>>)}
        ELSE IF st \in {"enoent", "enotdir"}
        THEN {Fail(L("lstat ") \o dir \o L(": no such file or directory"), env, <<>>)}
        ELSE {Ok(JsonMarshal(ListedFiles(env.fs, dir)), env, <<>>)}

(***************************************************************************)
(* edit_file                                                               *)
(***************************************************************************)

\* strings.Replace(s, old, new, -1): every non-overlapping occurrence from
\* the left; an empty old matches before every character and at the end
RECURSIVE Replace(_, _, _)
Replace(s, old, new) ==
    IF old = <<>>
    THEN IF s = <<>> THEN new ELSE new \o <<Head(s)>> \o Replace(Tail(s), old, new)
    ELSE IF Len(s) < Len(old) THEN s
    ELSE IF SubSeq(s, 1, Len(old)) = old
    THEN new \o Replace(SubSeq(s, Len(old) + 1, Len(s)), old, new)
    ELSE <<Head(s)>> \o Replace(Tail(s), old, new)

\* path.Dir
PathDir(filePath) ==
    LET slashes == {i \in 1..Len(filePath) : filePath[i] = "/"}
        last == IF slashes = {} THEN 0
                ELSE CHOOSE i \in slashes : \A j \in slashes : j <= i
        comps == Components(SubSeq(filePath, 1, last))
    IN  IF comps = <<>>
        THEN IF filePath # <<>> /\ filePath[1] = "/" THEN <<"/">> ELSE <<".">>
        ELSE JoinPath(comps)

\* os.MkdirAll: the file system with every missing directory of the path made,
\* or an error when a file is in the way
MkdirAll(f, dir) ==
    LET comps == Components(dir)
        prefixes == {SubSeq(comps, 1, k) : k \in 1..Len(comps)}
    IN  IF \E p \in prefixes : Resolve(f, p) \in {"file", "enotdir"} \/ p \notin DOMAIN f
        THEN [err |-> TRUE, msg |-> L("mkdir ") \o dir \o L(": not a directory"), fs |-> f]
        ELSE [err |-> FALSE, msg |-> <<>>,
              fs |-> [p \in DOMAIN f |-> IF p \in prefixes THEN DirNode ELSE f[p]]]

\* os.WriteFile: creates the file or replaces its content; the directory it
\* is in must exist
OsWriteFile(f, path, content) ==
    LET comps == Components(path)
        st == Stat(f, path)
        parent == IF comps = <<>> THEN "enoent"
                  ELSE Resolve(f, SubSeq(comps, 1, Len(comps) - 1))
    IN  IF /\ st \in {"file", "enoent"}
           /\ parent = "dir"
           /\ comps \in DOMAIN f
           /\ path[Len(path)] # "/"
        THEN [err |-> FALSE, msg |-> <<>>,
              fs |-> [f EXCEPT ![comps] = FileNode(content)]]
        ELSE [err |-> TRUE,
              msg |-> L("open ") \o path
                        \o (IF st = "dir" THEN L(": is a directory")
                            ELSE L(": no such file or directory")),
              fs |-> f]

\* createNewFile without the os.MkdirAll of main.go:289-295
createNewFileNoMkdir(filePath, content, env) ==
    LET written == OsWriteFile(env.fs, filePath, content)
        write == <<Event("writeFile", filePath)>>
    IN  IF written.err
        THEN {Fail(L("failed to create file: ") \o written.msg, env, write)}
        ELSE {Ok(L("Successfully created file ") \o filePath,
                 Env(written.fs, env.stdin, env.executed), write)}

createNewFile(filePath, content, env) ==
    LET dir == PathDir(filePath)
        made == IF dir # <<".">> THEN MkdirAll(env.fs, dir)
                ELSE [err |-> FALSE, msg |-> <<>>, fs |-> env.fs]
        mkdir == IF dir # <<".">> THEN <<Event("mkdirAll", dir)>> ELSE <<>>
        written == OsWriteFile(made.fs, filePath, content)
        write == <<Event("writeFile", filePath)>>
    IN  IF made.err
        THEN {Fail(L("failed to create directory: ") \o made.msg, env, mkdir)}
        ELSE IF written.err
        THEN {Fail(L("failed to create file: ") \o written.msg,
                   Env(made.fs, env.stdin, env.executed), mkdir \o write)}
        ELSE {Ok(L("Successfully created file ") \o filePath,
                 Env(written.fs, env.stdin, env.executed), mkdir \o write)}

\* the parameter check of EditFile (main.go:261)
InvalidOnlyEmptyPath(Path, OldStr, NewStr) == Path = <<>>

InvalidEditInput(Path, OldStr, NewStr) == Path = <<>> \/ OldStr = NewStr

EditFile(input, env) ==
    LET editFileInput == Unmarshal(input, {"path", "old_str", "new_str"})
        Path == editFileInput.val.path
        OldStr == editFileInput.val.old_str
        NewStr == editFileInput.val.new_str
        read == OsReadFile(env.fs, Path)
        reading == <<Event("readFile", Path)>>
        oldContent == read.content
        newContent == Replace(oldContent, OldStr, NewStr)
        written == OsWriteFile(env.fs, Path, newContent)
        writing == reading \o <<Event("writeFile", Path)>>
    IN  IF editFileInput.err THEN {Fail(editFileInput.msg, env, <<>>)}
        ELSE IF InvalidEditInput(Path, OldStr, NewStr)
        THEN {Fail(L("invalid input parameters"), env, <<>>)}
        ELSE IF read.err
        THEN IF read.notExist /\ OldStr = <<>>
             THEN {[o EXCEPT !.events = reading \o @]
                     : o \in createNewFile(Path, NewStr, env)}
             ELSE {Fail(read.msg, env, reading)}
        ELSE IF oldContent = newContent /\ OldStr # <<>>
        THEN {Fail(L("old_str not found in file"), env, reading)}
        ELSE IF written.err THEN {Fail(written.msg, env, writing)}
        ELSE {Ok(L("OK"), Env(written.fs, env.stdin, env.executed), writing)}

(***************************************************************************)
(* fetch_url                                                               *)
(***************************************************************************)

\* a page: its text nodes in document order, each with the tag it is in
Pages ==
    { << [tag |-> "p", data |-> <<" ", "h", "i", " ">>],
         [tag |-> "script", data |-> <<"x">>],
         [tag |-> "p", data |-> <<" ">>],
         [tag |-> "style", data |-> <<"y">>],
         [tag |-> "p", data |-> <<"y">>] >> }

\* extractTextFromHTML (main.go:428-449)
RECURSIVE VisibleText(_)
VisibleText(nodes) ==
    IF nodes = <<>> THEN <<>>
    ELSE LET n == Head(nodes)
             text == TrimSpace(n.data)
         IN  (IF n.tag # "script" /\ n.tag # "style" /\ text # <<>>
              THEN text \o <<" ">> ELSE <<>>)
             \o VisibleText(Tail(nodes))

extractTextFromHTML(nodes) == TrimSpace(VisibleText(nodes))

\* what http.Get can answer
HttpResults ==
    {[kind |-> "error", status |-> <<>>, body |-> <<>>],
     [kind |-> "status", status |-> L("404 Not Found"), body |-> <<>>]}
    \cup {[kind |-> "ok", status |-> L("200 OK"), body |-> b] : b \in Pages}

FetchUrl(input, env) ==
    LET fetchUrlInput == Unmarshal(input, {"url"})
    IN  IF fetchUrlInput.err THEN {Fail(fetchUrlInput.msg, env, <<>>)}
        ELSE IF fetchUrlInput.val.url = <<>>
        THEN {Fail(L("url cannot be empty"), env, <<>>)}
        ELSE {CASE r.kind = "error" ->
                     Fail(L("failed to fetch URL: ") \o L("Get: dial error"), env,
                          <<Event("http", fetchUrlInput.val.url)>>)
                [] r.kind = "status" ->
                     Fail(L("failed to fetch URL: ") \o r.status, env,
                          <<Event("http", fetchUrlInput.val.url)>>)
                [] OTHER ->
                     Ok(extractTextFromHTML(r.body), env,
                        <<Event("http", fetchUrlInput.val.url)>>)
              : r \in HttpResults}


(***************************************************************************)
(* The registry and the dispatcher                                         *)
(***************************************************************************)

\* the registry main builds (main.go:461), by name
tools == <<"read_file", "list_files", "edit_file", "command_execution", "fetch_url">>

\* ToolDefinition.Function of the registered tool called name
ToolFunction(name, input, env) ==
    CASE name = "read_file" -> ReadFile(input, env)
      [] name = "list_files" -> ListFiles(input, env)
      [] name = "edit_file" -> EditFile(input, env)
      [] name = "command_execution" -> CommandExecution(input, env)
      [] name = "fetch_url" -> FetchUrl(input, env)

\* anthropic.NewToolResultBlock
NewToolResultBlock(id, content, isError) ==
    [type |-> "tool_result", tool_use_id |-> id, content |-> content,
     is_error |-> isError]

\* the lookup of executeTool (main.go:121-127)
Found(name) == \E i \in 1..Len(tools) : tools[i] = name

\* NotFoundResult without the error flag
NotFoundResultNoError(id) == NewToolResultBlock(id, L("tool not found"), FALSE)

\* the result of a lookup that found nothing (main.go:128-130)
NotFoundResult(id) == NewToolResultBlock(id, L("tool not found"), TRUE)

\* WrapOutcome without the test of err
WrapOutcomeAlwaysOk(id, o) == NewToolResultBlock(id, o.response, FALSE)

\* the result block executeTool makes of what the handler returned
\* (main.go:133-136)
WrapOutcome(id, o) ==
    IF o.err THEN NewToolResultBlock(id, o.msg, TRUE)
    ELSE NewToolResultBlock(id, o.response, FALSE)

\* executeTool with the trace line printed before the lookup
executeToolTraceFirst(id, name, input, env) ==
    IF ~Found(name)
    THEN {[kind |-> "return", result |-> NotFoundResult(id), env |-> env,
           events |-> <<Event("trace", [name |-> name, input |-> input])>>]}
    ELSE {[kind |-> o.kind,
           result |-> WrapOutcome(id, o),
           env |-> o.env,
           events |-> <<Event("trace", [name |-> name, input |-> input]),
                        Event("call", [id |-> id, name |-> name, input |-> input])>>
                      \o o.events
                      \o <<Event(o.kind, [id |-> id, name |-> name, outcome |-> o])>>]
          : o \in ToolFunction(name, input, env)}

\* Agent.executeTool: its possible outcomes, each the result block it returns
\* (or a panic it lets through), the environment it leaves and what it did
executeTool(id, name, input, env) ==
    IF ~Found(name)
    THEN {[kind |-> "return", result |-> NotFoundResult(id), env |-> env,
           events |-> <<>>]}
    ELSE {[kind |-> o.kind,
           result |-> WrapOutcome(id, o),
           env |-> o.env,
           events |-> <<Event("trace", [name |-> name, input |-> input]),
                        Event("call", [id |-> id, name |-> name, input |-> input])>>
                      \o o.events
                      \o <<Event(o.kind, [id |-> id, name |-> name, outcome |-> o])>>]
          : o \in ToolFunction(name, input, env)}

(***************************************************************************)
(* The collaborators of Run: the operator's input and the model oracle     *)
(***************************************************************************)

hi == <<"h", "i">>
yes == <<"y", "e", "s">>
YES == <<"Y", "E", "S">>
no == <<"n", "o">>

\* the lines the operator types during a session
StdinScripts ==
    {<<>>, <<hi>>, <<hi, hi>>, <<hi, yes, hi>>, <<hi, no, YES>>}

\* getUserMessage (main.go:455-460): scanner.Scan() hands out the next line
\* the scanner holds; when it holds none it reads from os.Stdin whatever is
\* there, one line or several, and reports false at the end of the input
getUserMessage(in, buf) ==
    IF buf # <<>>
    THEN {[ok |-> TRUE, text |-> Head(buf), stdin |-> in, scanBuf |-> Tail(buf)]}
    ELSE IF in = <<>>
    THEN {[ok |-> FALSE, text |-> <<>>, stdin |-> in, scanBuf |-> buf]}
    ELSE {[ok |-> TRUE, text |-> in[1], stdin |-> SubSeq(in, k + 1, Len(in)),
           scanBuf |-> SubSeq(in, 2, k)] : k \in 1..Len(in)}

TextBlock(text) == [type |-> "text", text |-> text]
ToolUseBlock(id, name, input) ==
    [type |-> "tool_use", id |-> id, name |-> name, input |-> input]
ThinkingBlock == [type |-> "thinking", text |-> L("<thinking>")]

\* anthropic.NewUserMessage
NewUserMessage(blocks) == [role |-> "user", content |-> blocks]

\* Message.ToParam: the role and the content of the reply, without the rest
ToParam(m) == [role |-> m.role, content |-> m.content]

Reply(content) ==
    [role |-> "assistant", content |-> content,
     stop_reason |-> IF \E i \in 1..Len(content) : content[i].type = "tool_use"
                     THEN "tool_use" ELSE "end_turn"]

NoMessage == [role |-> "assistant", content |-> <<>>, stop_reason |-> "none"]

pathA == JObject([path |-> JStr(<<"a">>)])
cmdLs == JObject([command |-> JStr(<<"l", "s">>)])

\* the replies the oracle may give
Replies ==
    {Reply(c) : c \in
        {<<>>,
         <<TextBlock(L("hello"))>>,
         <<TextBlock(L("reading")), ToolUseBlock("t1", "read_file", pathA)>>,
         <<ToolUseBlock("t1", "read_file", JObject([path |-> JNum])),
           TextBlock(L("after")),
           ToolUseBlock("t2", "list_files", JEmptyObject)>>,
         <<ToolUseBlock("t1", "list_files", JArray)>>,
         <<ToolUseBlock("t1", "write_file", pathA),
           ToolUseBlock("t2", "list_files", JEmptyObject)>>,
         <<ToolUseBlock("t1", "command_execution", cmdLs),
           TextBlock(L("ran it")),
           ToolUseBlock("t2", "read_file", JObject([path |-> JStr(<<"d", "/", "d">>)]))>>,
         <<ThinkingBlock,
           ToolUseBlock("t1", "command_execution",
                        JObject([command |-> JStr(<<"r", "m", " ", "a">>)])),
           ToolUseBlock("t2", "edit_file",
                        JObject([path |-> JStr(<<"a">>), old_str |-> JStr(<<"x">>),
                                 new_str |-> JStr(<<"y">>)]))>>,
         <<ToolUseBlock("t1", "fetch_url", JObject([url |-> JStr(L("http://x"))]))>>}}

\* runInference sending the newest turn only
runInferenceLastTurnOnly(conv) ==
    [messages |-> IF conv = <<>> THEN conv ELSE <<conv[Len(conv)]>>, tools |-> tools]

\* the request runInference sends (main.go:54-59)
runInference(conv) == [messages |-> conv, tools |-> tools]

\* the file system a session starts in
InitialFs ==
    [p \in FsPaths |->
        CASE p = << <<"a">> >> -> FileNode(<<"x", "y", "x">>)
          [] p = << <<"d">> >> -> DirNode
          [] p = << <<"d">>, <<"a">> >> -> FileNode(<<"y">>)
          [] OTHER -> NoNode]

MaxInfer == 3


(***************************************************************************)
(* Agent.Run (main.go:63-102) and main (main.go:451-468)                   *)
(***************************************************************************)

NoFileCall == [tool |-> "none", input |-> JArray]

NoFileOut ==
    [applied |-> FALSE, before |-> InitialFs,
     outcome |-> Ok(<<>>, Env(InitialFs, <<>>, <<>>), <<>>)]

NoCmd == [applied |-> FALSE, input |-> JArray, outcome |-> Ok(<<>>, Env(InitialFs, <<>>, <<>>), <<>>)]

Init ==
    /\ conversation = <<>>
    /\ readUserInput = TRUE
    /\ pc = "loop"
    /\ message = NoMessage
    /\ idx = 1
    /\ toolResults = <<>>
    /\ ret = "running"
    /\ nInfer = 0
    /\ stdin \in StdinScripts
    /\ scanBuf = <<>>
    /\ fs = InitialFs
    /\ executed = <<>>
    /\ trace = <<Event("print", L("Chat with Claude Code (use 'ctrl-c' to quit)"))>>
    /\ cmdInput = JArray
    /\ cmdOut = NoCmd
    /\ fileCall = NoFileCall
    /\ fileOut = NoFileOut

\* main.go:68-76 with input left: the prompt, the line read, the UserTurn
ReadUserInput ==
    /\ pc = "loop"
    /\ readUserInput
    /\ \E r \in getUserMessage(stdin, scanBuf) :
          /\ r.ok
          /\ stdin' = r.stdin
          /\ scanBuf' = r.scanBuf
          /\ conversation' =
                 Append(conversation, NewUserMessage(<<TextBlock(r.text)>>))
          /\ trace' = trace \o <<Event("print", L("You: ")),
                                 Event("getUserMessage", r.text)>>
    /\ pc' = "infer"
    /\ UNCHANGED <<readUserInput, message, idx, toolResults, ret, nInfer, fs,
                   executed, cmdInput, cmdOut,
                   fileCall, fileOut>>

\* EndOfInput with the end of the input returned as an error
EndOfInputAsError ==
    /\ pc = "loop"
    /\ readUserInput
    /\ \E r \in getUserMessage(stdin, scanBuf) :
          /\ ~r.ok
          /\ stdin' = r.stdin
          /\ scanBuf' = r.scanBuf
    /\ trace' = trace \o <<Event("print", L("You: ")), Event("eof", <<>>),
                           Event("print", L("Error: ") \o L("EOF"))>>
    /\ pc' = "done"
    /\ ret' = "err"
    /\ UNCHANGED <<conversation, readUserInput, message, idx, toolResults,
                   nInfer, fs, executed, cmdInput, cmdOut,
                   fileCall, fileOut>>

\* main.go:68-73 at the end of the input: break, and Run returns nil
EndOfInput ==
    /\ pc = "loop"
    /\ readUserInput
    /\ \E r \in getUserMessage(stdin, scanBuf) :
          /\ ~r.ok
          /\ stdin' = r.stdin
          /\ scanBuf' = r.scanBuf
    /\ trace' = trace \o <<Event("print", L("You: ")), Event("eof", <<>>)>>
    /\ pc' = "done"
    /\ ret' = "nil"
    /\ UNCHANGED <<conversation, readUserInput, message, idx, toolResults,
                   nInfer, fs, executed, cmdInput, cmdOut,
                   fileCall, fileOut>>

\* main.go:68 with readUserInput false: no prompt, no read
SkipUserInput ==
    /\ pc = "loop"
    /\ ~readUserInput
    /\ pc' = "infer"
    /\ UNCHANGED <<conversation, readUserInput, message, idx, toolResults, ret,
                   nInfer, stdin, scanBuf, fs, executed, trace, cmdInput, cmdOut,
                   fileCall, fileOut>>

\* main.go:78-84: the oracle answers, the AssistantTurn is appended
InferenceReturns ==
    /\ pc = "infer"
    /\ nInfer < MaxInfer
    /\ \E reply \in Replies :
          /\ message' = reply
          /\ conversation' = Append(conversation, ToParam(reply))
    /\ trace' = Append(trace, Event("infer", runInference(conversation)))
    /\ nInfer' = nInfer + 1
    /\ toolResults' = <<>>
    /\ idx' = 1
    /\ pc' = "content"
    /\ UNCHANGED <<readUserInput, ret, stdin, scanBuf, fs, executed, cmdInput,
                   cmdOut, fileCall, fileOut>>

\* InferenceFails with the call tried again instead of the return
InferenceFailsRetries ==
    /\ pc = "infer"
    /\ nInfer < MaxInfer
    /\ trace' = trace \o <<Event("infer", runInference(conversation)),
                           Event("inferFailed", L("<transport error>"))>>
    /\ nInfer' = nInfer + 1
    /\ UNCHANGED <<conversation, readUserInput, pc, message, idx, toolResults,
                   ret, stdin, scanBuf, fs, executed, cmdInput, cmdOut,
                   fileCall, fileOut>>

\* main.go:78-81 and 463-466: the call fails, Run returns the error and main
\* prints it
InferenceFails ==
    /\ pc = "infer"
    /\ nInfer < MaxInfer
    /\ trace' = trace \o <<Event("infer", runInference(conversation)),
                           Event("inferFailed", L("<transport error>")),
                           Event("print", L("Error: ") \o L("<transport error>"))>>
    /\ nInfer' = nInfer + 1
    /\ ret' = "err"
    /\ pc' = "done"
    /\ UNCHANGED <<conversation, readUserInput, message, idx, toolResults,
                   stdin, scanBuf, fs, executed, cmdInput, cmdOut,
                   fileCall, fileOut>>

\* CollectResult with the new result put first
CollectResultPrepend(results, result) == <<result>> \o results

\* main.go:91: toolResults = append(toolResults, result)
CollectResult(results, result) == Append(results, result)

\* NoToolResults when the results are never looked at
NoToolResultsAlways(results) == TRUE

\* NoToolResults when the turn of results is appended whatever it holds
NoToolResultsNever(results) == FALSE

\* NoToolResults with a cap of two rounds on the tool results sent back
NoToolResultsAfterTwoRounds(results) == Len(results) = 0 \/ nInfer >= 2

\* main.go:94: len(toolResults) == 0
NoToolResults(results) == Len(results) = 0

\* a text segment that leaves no line on the terminal
RenderedNothing(block) == <<>>

\* main.go:88: fmt.Printf of a text segment
Rendered(block) == <<Event("print", L("Claude: ") \o block.text)>>

\* main.go:87-88: a text segment is printed
RenderText ==
    /\ pc = "content"
    /\ idx <= Len(message.content)
    /\ message.content[idx].type = "text"
    /\ trace' = trace \o Rendered(message.content[idx])
    /\ idx' = idx + 1
    /\ UNCHANGED <<conversation, readUserInput, pc, message, toolResults, ret,
                   nInfer, stdin, scanBuf, fs, executed, cmdInput, cmdOut,
                   fileCall, fileOut>>

\* main.go:89-91: a tool-use segment is dispatched and its result collected;
\* a panic of the handler ends the process
ExecuteTool ==
    /\ pc = "content"
    /\ idx <= Len(message.content)
    /\ message.content[idx].type = "tool_use"
    /\ \E o \in executeTool(message.content[idx].id, message.content[idx].name,
                            message.content[idx].input, Env(fs, stdin, executed)) :
          /\ trace' = trace \o o.events
          /\ fs' = o.env.fs
          /\ stdin' = o.env.stdin
          /\ executed' = o.env.executed
          /\ IF o.kind = "return"
             THEN /\ toolResults' = CollectResult(toolResults, o.result)
                  /\ idx' = idx + 1
                  /\ UNCHANGED <<pc, ret>>
             ELSE /\ pc' = "done"
                  /\ ret' = "panic"
                  /\ UNCHANGED <<toolResults, idx>>
    /\ UNCHANGED <<conversation, readUserInput, message, nInfer, scanBuf,
                   cmdInput, cmdOut,
                   fileCall, fileOut>>

\* main.go:86: a segment of any other type matches no case
SkipBlock ==
    /\ pc = "content"
    /\ idx <= Len(message.content)
    /\ message.content[idx].type \notin {"text", "tool_use"}
    /\ idx' = idx + 1
    /\ UNCHANGED <<conversation, readUserInput, pc, message, toolResults, ret,
                   nInfer, stdin, scanBuf, fs, executed, trace, cmdInput, cmdOut,
                   fileCall, fileOut>>

\* main.go:94-99: after the last segment, back to the user or on with the
\* ToolResultTurn
EndOfContent ==
    /\ pc = "content"
    /\ idx > Len(message.content)
    /\ IF NoToolResults(toolResults)
       THEN /\ readUserInput' = TRUE
            /\ UNCHANGED conversation
       ELSE /\ readUserInput' = FALSE
            /\ conversation' = Append(conversation, NewUserMessage(toolResults))
    /\ pc' = "loop"
    /\ UNCHANGED <<message, idx, toolResults, ret, nInfer, stdin, scanBuf, fs,
                   executed, trace, cmdInput, cmdOut,
                   fileCall, fileOut>>

Next ==
    \/ ReadUserInput
    \/ EndOfInput
    \/ SkipUserInput
    \/ InferenceReturns
    \/ InferenceFails
    \/ RenderText
    \/ ExecuteTool
    \/ SkipBlock
    \/ EndOfContent

Spec == Init /\ [][Next]_vars


(***************************************************************************)
(* CommandExecution on its own: one call on each of a set of raw           *)
(* arguments, with each of a set of answers waiting on the standard input. *)
(***************************************************************************)

\* pieces of command lines: harmless words, the denylisted texts in several
\* spellings, near misses of them, and the path tokens
CommandWords ==
    {<<>>,
     <<"l", "s">>,
     <<"e", "c", "h", "o", " ", "h", "i">>,
     <<"r", "m", " ">>,
     <<"R", "m", " ">>,
     <<"r", "m">>,
     <<"S", "H", "U", "T", "D", "O", "W", "N">>,
     <<"r", "e", "b", "o", "o", "t">>,
     <<"K", "i", "l", "l", " ">>,
     <<"k", "i", "l", "l">>,
     <<"p", "a", "s", "s", "w", "d">>,
     <<"c", "h", "o", "w", "n">>,
     <<"c", "h", "M", "o", "d">>,
     <<"s", "u", "d", "o">>,
     <<"S", "u">>,
     <<"s", " ", "u">>,
     <<"c", "d", " ">>,
     <<"C", "D", " ">>,
     <<"c", "d">>,
     <<"/">>,
     <<".", ".">>,
     <<" ", ".">>}

\* how far past the length limit the long commands go
MaxOver == 2

LongCommands ==
    {Repeat("a", n) : n \in (MaxCommandLen - 1)..(MaxCommandLen + MaxOver)}
    \cup {Repeat("a", MaxCommandLen - 2) \o <<"l", "s">>,
          Repeat("a", MaxCommandLen - 2) \o <<"r", "m", " ">>,
          Repeat("a", MaxCommandLen - 1) \o <<".", ".">>}

Commands == {a \o b : a, b \in CommandWords} \cup LongCommands

CmdInputs ==
    {JObject([command |-> JStr(c)]) : c \in Commands}
    \cup {JArray, JEmptyObject, JObject([command |-> JNum]),
          JObject([path |-> JStr(<<"a">>)])}

\* what the operator may have typed when the prompt comes
ConfirmScripts ==
    {<<>>, <<yes>>, <<YES, hi>>, <<no>>, <<<<>>, yes>>,
     <<<<" ", "Y", "e", "s", " ", "n", "o">>, hi>>,
     <<<<"y", "e", "s", "s">>>>, <<<<"y", "e">>, yes>>}

InitCmd ==
    /\ conversation = <<>>
    /\ readUserInput = TRUE
    /\ pc = "loop"
    /\ message = NoMessage
    /\ idx = 1
    /\ toolResults = <<>>
    /\ ret = "running"
    /\ nInfer = 0
    /\ stdin \in ConfirmScripts
    /\ scanBuf = <<>>
    /\ fs = InitialFs
    /\ executed = <<>>
    /\ trace = <<>>
    /\ cmdInput \in CmdInputs
    /\ cmdOut = NoCmd
    /\ fileCall = NoFileCall
    /\ fileOut = NoFileOut

\* one call of CommandExecution (main.go:322-373)
ApplyCommandExecution ==
    /\ ~cmdOut.applied
    /\ \E o \in CommandExecution(cmdInput, Env(fs, stdin, executed)) :
          /\ cmdOut' = [applied |-> TRUE, input |-> cmdInput, outcome |-> o]
          /\ stdin' = o.env.stdin
          /\ executed' = o.env.executed
          /\ fs' = o.env.fs
          /\ trace' = trace \o o.events
    /\ UNCHANGED <<conversation, readUserInput, pc, message, idx, toolResults,
                   ret, nInfer, scanBuf, cmdInput, fileCall, fileOut>>

NextCmd == ApplyCommandExecution

SpecCmd == InitCmd /\ [][NextCmd]_vars


(***************************************************************************)
(* The turns of the conversation                                           *)
(***************************************************************************)

Last(q) == q[Len(q)]

IsPrefix(p, q) == Len(p) <= Len(q) /\ SubSeq(q, 1, Len(p)) = p

\* a UserTurn: what the operator typed
IsUserTurn(t) ==
    t.role = "user" /\ Len(t.content) = 1 /\ t.content[1].type = "text"

\* an AssistantTurn: a reply of the oracle
IsAssistantTurn(t) == t.role = "assistant"

\* a ToolResultTurn: a turn of the user role that carries results only
IsToolResultTurn(t) ==
    t.role = "user" /\ \A i \in 1..Len(t.content) : t.content[i].type = "tool_result"

\* the tool-use segments of a turn, in order
ToolUses(t) == SelectSeq(t.content, LAMBDA b : b.type = "tool_use")

\* the step calls the user-message reader
ReaderCalled ==
    \E i \in (Len(trace) + 1)..Len(trace') : trace'[i].ev \in {"getUserMessage", "eof"}

(***************************************************************************)
(* The claims                                                              *)
(***************************************************************************)

\* C1: an assistant turn with k >= 1 tool-use segments is followed in the
\* conversation, when anything follows it, by a tool-result turn of exactly k
\* results whose i-th result carries the id of the i-th tool-use segment; an
\* assistant turn without tool-use segments is never followed by a
\* tool-result turn.
C1_ResultsMatchRequests ==
    \A j \in 1..(Len(conversation) - 1) :
        IsAssistantTurn(conversation[j]) =>
            LET uses == ToolUses(conversation[j])
                next == conversation[j + 1]
            IN  IF Len(uses) >= 1
                THEN /\ IsToolResultTurn(next)
                     /\ Len(next.content) = Len(uses)
                     /\ \A i \in 1..Len(uses) :
                            next.content[i].tool_use_id = uses[i].id
                ELSE ~IsToolResultTurn(next)

\* C1 witness: a turn of two tool-use segments has been answered by a turn of
\* two results, and a turn without tool use by the next user turn.
C1_Witness ==
    /\ \E j \in 1..(Len(conversation) - 1) :
          /\ IsAssistantTurn(conversation[j])
          /\ Len(ToolUses(conversation[j])) = 2
          /\ Len(conversation[j + 1].content) = 2
    /\ \E j \in 1..(Len(conversation) - 1) :
          /\ IsAssistantTurn(conversation[j])
          /\ Len(ToolUses(conversation[j])) = 0
          /\ IsUserTurn(conversation[j + 1])

\* C2: the conversation is UserTurn, AssistantTurn, (ToolResultTurn,
\* AssistantTurn)*, UserTurn, ...: it starts with a UserTurn, a UserTurn or a
\* ToolResultTurn is followed only by an AssistantTurn, an AssistantTurn never
\* by another, and every ToolResultTurn comes right after an AssistantTurn
\* that holds a tool-use segment.
C2_ConversationPattern ==
    /\ Len(conversation) >= 1 => IsUserTurn(conversation[1])
    /\ \A j \in 1..Len(conversation) :
          \/ IsUserTurn(conversation[j])
          \/ IsAssistantTurn(conversation[j])
          \/ IsToolResultTurn(conversation[j])
    /\ \A j \in 1..(Len(conversation) - 1) :
          /\ ~(IsUserTurn(conversation[j]) /\ IsUserTurn(conversation[j + 1]))
          /\ ~IsAssistantTurn(conversation[j]) => IsAssistantTurn(conversation[j + 1])
          /\ IsAssistantTurn(conversation[j]) => ~IsAssistantTurn(conversation[j + 1])
    /\ \A j \in 1..Len(conversation) :
          IsToolResultTurn(conversation[j]) =>
              /\ j > 1
              /\ IsAssistantTurn(conversation[j - 1])
              /\ Len(ToolUses(conversation[j - 1])) >= 1

\* C2 witness: two rounds of tool results in a row, then a second user turn.
C2_Witness ==
    /\ Len(conversation) >= 7
    /\ IsToolResultTurn(conversation[3])
    /\ IsToolResultTurn(conversation[5])
    /\ IsUserTurn(conversation[7])

\* C3: the user-message reader is called only at the start of the session
\* and right after an assistant turn without tool-use segments; and once a
\* tool-result turn is the last turn, the next thing Run does with a
\* collaborator is an inference call.
C3_ReadOnlyAfterPlainTurn ==
    [][/\ ReaderCalled =>
             \/ conversation = <<>> /\ nInfer = 0
             \/ /\ conversation # <<>>
                /\ IsAssistantTurn(Last(conversation))
                /\ Len(ToolUses(Last(conversation))) = 0
       /\ (/\ conversation # <<>>
           /\ IsToolResultTurn(Last(conversation))
           /\ Len(trace') > Len(trace)) =>
             trace'[Len(trace) + 1].ev = "infer"]_vars

\* C3 witness: a tool-result turn has been sent to the oracle, and the reader
\* has been called a second time.
C3_Witness ==
    /\ \E j \in 1..(Len(conversation) - 1) : IsToolResultTurn(conversation[j])
    /\ Cardinality({i \in 1..Len(trace) : trace[i].ev = "getUserMessage"}) >= 2


\* C4: executeTool never lets a panic through: whatever the tool name and the
\* raw arguments, the dispatch ends in a result and Run goes on.  (The claim
\* as stated; ReadFile and ListFiles panic on arguments that do not decode.)
C4_DispatchNeverPanics ==
    /\ ret # "panic"
    /\ \A i \in 1..Len(trace) : trace[i].ev # "panic"

\* the names of the registry
Registered == {tools[i] : i \in 1..Len(tools)}

\* the segment Run is at
Segment == message.content[idx]

\* Run is about to dispatch a tool-use segment
AtToolUse ==
    pc = "content" /\ idx <= Len(message.content) /\ Segment.type = "tool_use"

\* C5: the dispatch of a name that is not in the registry yields the result
\* (id of the request, "tool not found", is_error) and nothing else: no
\* handler is called, nothing is printed, read, written or executed, Run stays
\* in its loop; and when Run leaves the segments of the turn, the result is
\* in the tool-result turn it appends, and no user input is read before the
\* next inference call.
C5_ToolNotFound ==
    [][/\ (AtToolUse /\ Segment.name \notin Registered) =>
             /\ toolResults' =
                    Append(toolResults,
                           [type |-> "tool_result", tool_use_id |-> Segment.id,
                            content |-> L("tool not found"), is_error |-> TRUE])
             /\ trace' = trace
             /\ fs' = fs /\ stdin' = stdin /\ executed' = executed
             /\ ret' = "running" /\ pc' = "content" /\ idx' = idx + 1
       /\ (/\ pc = "content"
           /\ pc' = "loop"
           /\ \E i \in 1..Len(toolResults) :
                  toolResults[i].content = L("tool not found")) =>
             /\ conversation' = Append(conversation,
                                       [role |-> "user", content |-> toolResults])
             /\ readUserInput' = FALSE]_vars

\* C5 witness: a "tool not found" result is in the conversation and the
\* oracle has answered it.
C5_Witness ==
    \E j \in 1..(Len(conversation) - 1) :
        /\ IsToolResultTurn(conversation[j])
        /\ conversation[j].content[1].content = L("tool not found")
        /\ conversation[j].content[1].is_error
        /\ IsAssistantTurn(conversation[j + 1])

\* C6: when the handler of a registered tool returns, the result collected
\* for the segment carries the segment's id and mirrors what the handler
\* returned: its output and is_error = FALSE, or the message of its error and
\* is_error = TRUE.
C6_ResultMirrorsHandler ==
    [][(AtToolUse /\ Len(trace') > Len(trace) /\ Last(trace').ev = "return") =>
          LET e == Last(trace').x
          IN  /\ e.id = Segment.id
              /\ e.name = Segment.name
              /\ e.name \in Registered
              /\ toolResults' =
                     Append(toolResults,
                            [type |-> "tool_result", tool_use_id |-> Segment.id,
                             content |-> IF e.outcome.err THEN e.outcome.msg
                                         ELSE e.outcome.response,
                             is_error |-> e.outcome.err])]_vars

\* C6 witness: one handler has returned an output and another an error, and
\* both results are in the conversation.
C6_Witness ==
    /\ \E i \in 1..Len(trace) : trace[i].ev = "return" /\ trace[i].x.outcome.err
    /\ \E i \in 1..Len(trace) :
          /\ trace[i].ev = "return"
          /\ ~trace[i].x.outcome.err
          /\ trace[i].x.outcome.response # <<>>
    /\ pc = "loop"
    /\ ~readUserInput

\* C7: a failed inference call ends the session with the error: Run has
\* returned it, the failed call is the last thing Run did (no retry, no
\* dispatch, no read of user input after it) but for main printing that
\* error, and the conversation is still the one the call was given (no
\* assistant turn appended).
C7_InferenceFailureIsFatal ==
    /\ \A i \in 1..Len(trace) :
          trace[i].ev = "inferFailed" =>
              /\ ret = "err"
              /\ pc = "done"
              /\ i = Len(trace) - 1
              /\ trace[Len(trace)].ev = "print"
              /\ trace[Len(trace)].x = L("Error: ") \o trace[i].x
              /\ trace[i - 1].ev = "infer"
              /\ trace[i - 1].x.messages = conversation
    /\ ret = "err" => \E i \in 1..Len(trace) : trace[i].ev = "inferFailed"

\* C7 witness: the session ended on a failed inference call that followed a
\* tool-result turn.
C7_Witness ==
    /\ ret = "err"
    /\ conversation # <<>>
    /\ IsToolResultTurn(Last(conversation))

\* C8: Run returns nil exactly when the user-message reader has signalled the
\* end of the input; the signal comes while Run awaits user input, it is the
\* last thing that happens, and the step that receives it appends no turn and
\* makes no inference call.
C8_CleanEndOnlyAtEof ==
    /\ [](/\ ret = "nil" <=> \E i \in 1..Len(trace) : trace[i].ev = "eof"
          /\ \A i \in 1..Len(trace) :
                 trace[i].ev = "eof" => i = Len(trace) /\ pc = "done")
    /\ [][(ret # "nil" /\ ret' = "nil") =>
             /\ pc = "loop"
             /\ readUserInput
             /\ conversation' = conversation
             /\ nInfer' = nInfer]_vars

\* C8 witness: a session with an answered user turn has ended cleanly.
C8_Witness ==
    /\ ret = "nil"
    /\ Len(conversation) >= 2

\* C9: across every step the old conversation is a prefix of the new one,
\* and every inference call is given the whole conversation as it is at the
\* call.
C9_AppendOnlyAndSentWhole ==
    [][/\ IsPrefix(conversation, conversation')
       /\ nInfer' # nInfer =>
             /\ Len(trace') > Len(trace)
             /\ trace'[Len(trace) + 1].ev = "infer"
             /\ trace'[Len(trace) + 1].x.messages = conversation]_vars

\* C9 witness: a third inference call, on a conversation of six turns or
\* more.
C9_Witness ==
    /\ nInfer = 3
    /\ Len(conversation) >= 6


\* the command of the raw arguments under test, when they decode
TestedCommand == cmdInput.fields["command"].s

TestedDecodes == cmdInput.kind = "object" /\ cmdInput.fields["command"].t # "num"

\* the commands C10 says are rejected: the empty one, one that holds a
\* denylisted text in any spelling of upper and lower case, one that holds
\* the directory-change invocation "cd " (the command name and the blank
\* before its argument), one of more than 256 characters, one that holds a
\* path separator or the parent-directory token
MustBeRejected(c) ==
    \/ c = <<>>
    \/ \E i \in 1..Len(disallowed) : Contains(ToLower(c), disallowed[i])
    \/ Contains(ToLower(c), <<"c", "d", " ">>)
    \/ Len(c) > 256
    \/ Contains(c, <<"/">>)
    \/ Contains(c, <<".", ".">>)

FirstWord(line) ==
    LET a == LeadingSpaces(line)
        r == SubSeq(line, a + 1, Len(line))
    IN  SubSeq(r, 1, TokenLen(r))

\* the operator's answer to the prompt: the first word of the next line of
\* the standard input, nothing at its end
Answer == IF stdin = <<>> THEN <<>> ELSE FirstWord(Head(stdin))

\* the call under test is made in this step, on a command that passes every
\* guardrail
PassingCommandApplied ==
    /\ ~cmdOut.applied
    /\ cmdOut'.applied
    /\ TestedDecodes
    /\ ~MustBeRejected(TestedCommand)

\* the positions of the events of kind e in a sequence of events
Positions(events, e) == {i \in 1..Len(events) : events[i].ev = e}

\* C11 (as stated): a command that passes the guardrails is executed only
\* if the operator's answer is "yes"; any other answer cancels.
C11_OnlyExactYes ==
    [][(PassingCommandApplied /\ executed' # executed) =>
          (stdin # <<>> /\ Head(stdin) = yes)]_vars

\* C11 (amended): a command that passes the guardrails is executed exactly
\* when the first word of the operator's answer is "yes" in any spelling of
\* upper and lower case; every other answer, and the end of the input,
\* yields the error "command execution cancelled by user" with nothing
\* executed; and whenever the command is executed, the prompt has been
\* printed and the answer read before.
C11_YesInAnyCase ==
    [][PassingCommandApplied =>
          LET o == cmdOut'.outcome
          IN  IF ToLower(Answer) = yes
              THEN /\ executed' = Append(executed, TestedCommand)
                   /\ Positions(o.events, "exec") # {}
                   /\ \A x \in Positions(o.events, "exec") :
                          \E p \in Positions(o.events, "print") :
                          \E r \in Positions(o.events, "scanln") : p < r /\ r < x
              ELSE /\ executed' = executed
                   /\ Positions(o.events, "exec") = {}
                   /\ Positions(o.events, "scanln") # {}
                   /\ o.kind = "return"
                   /\ o.err
                   /\ o.msg = L("command execution cancelled by user")]_vars

\* C11 witness: "ls" has been executed on the answer " Yes no".
C11_Witness ==
    /\ cmdOut.applied
    /\ executed = <<<<"l", "s">>>>
    /\ cmdOut.input = cmdLs
    /\ stdin = <<<<"o">>, hi>>


(***************************************************************************)
(* The file tools on their own: one call of EditFile (main.go:254-286) or  *)
(* of ListFiles (main.go:185-228) on any file system of FileSystems.       *)
(***************************************************************************)

\* what a file may hold
Contents == {<<>>, <<"x", "y", "x">>}

Nodes == {NoNode, DirNode} \cup {FileNode(c) : c \in Contents}

\* every tree over FsPaths: only a directory has anything below it
FileSystems ==
    {f \in [FsPaths -> Nodes] :
        \A p \in FsPaths :
            (Len(p) = 2 /\ f[p].kind # "none") => f[<<p[1]>>].kind = "dir"}

EditPaths ==
    {<<>>, <<"a">>, <<"d">>, <<"a", "/", "a">>, <<"d", "/", "a">>, <<"a", "/">>}

EditStrings == {<<>>, <<"x">>, <<"y">>}

EditInputs ==
    {JObject([path |-> JStr(p), old_str |-> JStr(o), new_str |-> JStr(n)])
        : p \in EditPaths, o \in EditStrings, n \in EditStrings}
    \cup {JArray, JObject([path |-> JStr(<<"a">>), old_str |-> JNum])}

ListInputs ==
    {JObject([path |-> JStr(p)])
        : p \in {<<>>, <<"a">>, <<"d">>, <<"d", "/", "a">>}}
    \cup {JEmptyObject, JArray, JObject([path |-> JNum])}

FileCalls ==
    {[tool |-> "edit_file", input |-> i] : i \in EditInputs}
    \cup {[tool |-> "list_files", input |-> i] : i \in ListInputs}

InitFiles ==
    /\ conversation = <<>>
    /\ readUserInput = TRUE
    /\ pc = "loop"
    /\ message = NoMessage
    /\ idx = 1
    /\ toolResults = <<>>
    /\ ret = "running"
    /\ nInfer = 0
    /\ stdin = <<>>
    /\ scanBuf = <<>>
    /\ fs \in FileSystems
    /\ executed = <<>>
    /\ trace = <<>>
    /\ cmdInput = JArray
    /\ cmdOut = NoCmd
    /\ fileCall \in FileCalls
    /\ fileOut = NoFileOut

\* one call of EditFile (main.go:254-286)
ApplyEditFile ==
    /\ ~fileOut.applied
    /\ fileCall.tool = "edit_file"
    /\ \E o \in EditFile(fileCall.input, Env(fs, stdin, executed)) :
          /\ fileOut' = [applied |-> TRUE, before |-> fs, outcome |-> o]
          /\ fs' = o.env.fs
          /\ trace' = trace \o o.events
    /\ UNCHANGED <<conversation, readUserInput, pc, message, idx, toolResults,
                   ret, nInfer, stdin, scanBuf, executed, cmdInput, cmdOut,
                   fileCall>>

\* one call of ListFiles (main.go:185-228)
ApplyListFiles ==
    /\ ~fileOut.applied
    /\ fileCall.tool = "list_files"
    /\ \E o \in ListFiles(fileCall.input, Env(fs, stdin, executed)) :
          /\ fileOut' = [applied |-> TRUE, before |-> fs, outcome |-> o]
          /\ fs' = o.env.fs
          /\ trace' = trace \o o.events
    /\ UNCHANGED <<conversation, readUserInput, pc, message, idx, toolResults,
                   ret, nInfer, stdin, scanBuf, executed, cmdInput, cmdOut,
                   fileCall>>

NextFiles == ApplyEditFile \/ ApplyListFiles

SpecFiles == InitFiles /\ [][NextFiles]_vars

\* the arguments of the edit_file call under test, decoded
TestedEdit == Unmarshal(fileCall.input, {"path", "old_str", "new_str"}).val

\* this step is the edit_file call under test, its arguments decoded
EditApplied ==
    /\ ~fileOut.applied
    /\ fileOut'.applied
    /\ fileCall.tool = "edit_file"
    /\ ~Unmarshal(fileCall.input, {"path", "old_str", "new_str"}).err

\* the file at the path holds exactly content
HoldsExactly(f, path, content) ==
    /\ Stat(f, path) = "file"
    /\ f[Components(path)] = FileNode(content)

\* C12 as stated: for every non-existent path and every new_str, EditFile
\* with old_str = "" succeeds and the file then holds exactly new_str.
C12_CreatesAtEveryMissingPath ==
    [][(/\ EditApplied
        /\ TestedEdit.old_str = <<>>
        /\ TestedEdit.path # <<>>
        /\ Stat(fs, TestedEdit.path) \notin {"file", "dir"})
       => (/\ fileOut'.outcome.kind = "return"
           /\ ~fileOut'.outcome.err
           /\ HoldsExactly(fs', TestedEdit.path, TestedEdit.new_str))]_vars

\* C12, amended: for a path where nothing exists, that does not end in a
\* separator and has no file among its parents, and for a non-empty new_str,
\* EditFile with old_str = "" succeeds; afterwards the file holds exactly
\* new_str, its missing parent directories exist, and nothing else changed.
C12_CreatesMissingFile ==
    [][(/\ EditApplied
        /\ TestedEdit.old_str = <<>>
        /\ TestedEdit.new_str # <<>>
        /\ TestedEdit.path # <<>>
        /\ TestedEdit.path[Len(TestedEdit.path)] # "/"
        /\ Stat(fs, TestedEdit.path) = "enoent")
       => (/\ fileOut'.outcome.kind = "return"
           /\ ~fileOut'.outcome.err
           /\ fileOut'.outcome.response
                = L("Successfully created file ") \o TestedEdit.path
           /\ HoldsExactly(fs', TestedEdit.path, TestedEdit.new_str)
           /\ \A p \in FsPaths :
                 \/ p = Components(TestedEdit.path)
                 \/ fs'[p] = fs[p]
                 \/ /\ IsPrefix(p, Components(TestedEdit.path))
                    /\ fs[p].kind = "none"
                    /\ fs'[p] = DirNode)]_vars

\* a file was created two levels down, in a directory that did not exist
C12_Witness ==
    /\ fileOut.applied
    /\ fileCall.tool = "edit_file"
    /\ fileCall.input = JObject([path |-> JStr(<<"a", "/", "a">>),
                                 old_str |-> JStr(<<>>),
                                 new_str |-> JStr(<<"x">>)])
    /\ fileOut.before[<< <<"a">> >>].kind = "none"
    /\ ~fileOut.outcome.err
    /\ fs[<< <<"a">> >>] = DirNode
    /\ fs[<< <<"a">>, <<"a">> >>] = FileNode(<<"x">>)

\* the events of a call that touch the file system
TouchesFiles(events) ==
    \E i \in 1..Len(events) : events[i].ev \in {"readFile", "writeFile", "mkdirAll"}

WritesFiles(events) ==
    \E i \in 1..Len(events) : events[i].ev \in {"writeFile", "mkdirAll"}

\* C13: EditFile returns an error and leaves the file system unchanged when
\* old_str equals new_str (no file is read or written before the rejection)
\* and when a non-empty old_str does not occur in the existing file's content.
C13_RejectedEditsChangeNothing ==
    [][EditApplied =>
         LET o == fileOut'.outcome
         IN  /\ (TestedEdit.old_str = TestedEdit.new_str)
                 => (/\ o.kind = "return"
                     /\ o.err
                     /\ ~TouchesFiles(o.events)
                     /\ fs' = fs)
             /\ (/\ TestedEdit.old_str # <<>>
                 /\ Stat(fs, TestedEdit.path) = "file"
                 /\ ~Contains(fs[Components(TestedEdit.path)].content,
                              TestedEdit.old_str))
                 => (/\ o.kind = "return"
                     /\ o.err
                     /\ ~WritesFiles(o.events)
                     /\ fs' = fs)]_vars

\* old_str "y" was looked for in an existing empty file and not found
C13_Witness ==
    /\ fileOut.applied
    /\ fileCall.tool = "edit_file"
    /\ fileCall.input = JObject([path |-> JStr(<<"a">>),
                                 old_str |-> JStr(<<"y">>),
                                 new_str |-> JStr(<<"x">>)])
    /\ fileOut.before[<< <<"a">> >>] = FileNode(<<>>)
    /\ fileOut.outcome.err
    /\ fileOut.outcome.msg = L("old_str not found in file")
    /\ fs = fileOut.before

\* the places of s where sub starts
Occurrences(s, sub) ==
    {i \in 1..(Len(s) - Len(sub) + 1) : SubSeq(s, i, i + Len(sub) - 1) = sub}

\* s with the occurrence of old at place i replaced by new
ReplacedAt(s, i, old, new) ==
    SubSeq(s, 1, i - 1) \o new \o SubSeq(s, i + Len(old), Len(s))

\* C14: a successful EditFile on an existing file, with a non-empty old_str,
\* found old_str at exactly one place and replaced exactly that occurrence,
\* the rest of the content unchanged; a file in which old_str occurs more
\* than once is not edited at several places.
C14_ReplacesExactlyOneMatch ==
    [][(/\ EditApplied
        /\ TestedEdit.old_str # <<>>
        /\ Stat(fs, TestedEdit.path) = "file"
        /\ fileOut'.outcome.kind = "return"
        /\ ~fileOut'.outcome.err)
       => LET content == fs[Components(TestedEdit.path)].content
              places == Occurrences(content, TestedEdit.old_str)
          IN  /\ Cardinality(places) = 1
              /\ \A i \in places :
                    HoldsExactly(fs', TestedEdit.path,
                                 ReplacedAt(content, i, TestedEdit.old_str,
                                            TestedEdit.new_str))]_vars

\* this step is the list_files call under test, with an empty path
ListAppliedHere ==
    /\ ~fileOut.applied
    /\ fileOut'.applied
    /\ fileCall.tool = "list_files"
    /\ ~Unmarshal(fileCall.input, {"path"}).err
    /\ Unmarshal(fileCall.input, {"path"}).val.path = <<>>

\* the paths of the model, a directory before what is below it, names in
\* lexical order
FsPathOrder ==
    << << <<"a">> >>, << <<"a">>, <<"a">> >>, << <<"a">>, <<"d">> >>,
       << <<"d">> >>, << <<"d">>, <<"a">> >>, << <<"d">>, <<"d">> >> >>

\* the listing of the entries of f among paths: each once, by its path from
\* the current directory, a directory marked by a trailing separator
ListingOf(f, paths) ==
    LET there == SelectSeq(FsPathOrder,
                           LAMBDA p : p \in paths /\ f[p].kind # "none")
    IN  JsonMarshal([i \in 1..Len(there) |->
                       IF f[there[i]].kind = "dir"
                       THEN JoinPath(there[i]) \o <<"/">>
                       ELSE JoinPath(there[i])])

\* C15 as stated: list_files with an empty path lists the immediate entries
\* of the current directory only, nothing from deeper levels.
C15_ListsImmediateEntriesOnly ==
    [][ListAppliedHere
       => (/\ fileOut'.outcome.kind = "return"
           /\ ~fileOut'.outcome.err
           /\ fileOut'.outcome.response
                = ListingOf(fs, {p \in FsPaths : Len(p) = 1}))]_vars

\* C15, amended: list_files with an empty path lists every entry below the
\* current directory, at every depth: each file and directory once, by its
\* path relative to the current directory, a directory before its entries
\* and marked, no entry for the current directory itself (null when there is
\* no entry); the file system is left as it was.
C15_ListsEveryEntryBelow ==
    [][ListAppliedHere
       => (/\ fileOut'.outcome.kind = "return"
           /\ ~fileOut'.outcome.err
           /\ fileOut'.outcome.response = ListingOf(fs, FsPaths)
           /\ fs' = fs)]_vars

\* the listing of a directory with a file and a directory that holds a file
C15_Witness ==
    /\ fileOut.applied
    /\ fileCall = [tool |-> "list_files", input |-> JEmptyObject]
    /\ fileOut.before[<< <<"a">> >>].kind = "file"
    /\ fileOut.before[<< <<"d">> >>].kind = "dir"
    /\ fileOut.before[<< <<"d">>, <<"a">> >>].kind = "file"
    /\ fileOut.before[<< <<"d">>, <<"d">> >>].kind = "none"
    /\ fileOut.outcome.response
         = JsonMarshal(<< <<"a">>, <<"d", "/">>, <<"d", "/", "a">> >>)

\* what Run has done since the reply it is working on came in
TurnEvents ==
    LET infers == Positions(trace, "infer")
        last == IF infers = {} THEN 0
                ELSE CHOOSE i \in infers : \A j \in infers : j <= i
    IN  SubSeq(trace, last + 1, Len(trace))

\* the ids of the tool-use segments whose handler was invoked, in order
CallsOfTurn ==
    LET calls == SelectSeq(TurnEvents, LAMBDA e : e.ev = "call")
    IN  [i \in 1..Len(calls) |-> calls[i].x.id]

\* the ids of the tool-use segments that name a registered tool, in order
RegisteredUses(content) ==
    LET uses == SelectSeq(content,
                          LAMBDA b : b.type = "tool_use" /\ b.name \in Registered)
    IN  [i \in 1..Len(uses) |-> uses[i].id]

\* every handler that was started has ended before the next one starts
OneAtATime ==
    \A i \in Positions(trace, "call") :
        \E j \in (i + 1)..Len(trace) :
            /\ trace[j].ev \in {"return", "panic"}
            /\ trace[j].x.id = trace[i].x.id
            /\ \A k \in (i + 1)..j : trace[k].ev # "call"

\* Run is through with the reply: past its last segment, or ended by a panic
TurnOver == pc = "loop" \/ ret = "panic"

\* C16: the tools of a turn are dispatched one at a time in the order of
\* their segments, the handler of one has returned before the next starts,
\* and when Run is through with the turn every tool-use segment that names a
\* registered tool has had exactly one handler invocation.
C16_EachSegmentDispatchedOnce ==
    /\ OneAtATime
    /\ pc = "content" =>
          CallsOfTurn = RegisteredUses(SubSeq(message.content, 1, idx - 1))
    /\ TurnOver => CallsOfTurn = RegisteredUses(message.content)

\* the texts of the text segments among content, in order
TextsOf(content) ==
    LET texts == SelectSeq(content, LAMBDA b : b.type = "text")
    IN  [i \in 1..Len(texts) |-> texts[i].text]

\* the texts of the lines that render a text segment among events, in order
RenderedIn(events) ==
    LET lines == SelectSeq(events,
                           LAMBDA e : e.ev = "print" /\ e.x[1] = "Claude: ")
    IN  [i \in 1..Len(lines) |-> Tail(lines[i].x)]

\* the segments of the reply that come before the tool-use segment id
SegmentsBefore(id) ==
    LET i == CHOOSE k \in 1..Len(message.content) :
                 message.content[k].type = "tool_use" /\ message.content[k].id = id
    IN  SubSeq(message.content, 1, i - 1)

\* this step dispatches the tool-use segment Run is at
Dispatched == AtToolUse /\ (idx' = idx + 1 \/ ret' = "panic")

\* C17 as stated: every text segment of a turn is rendered exactly once, in
\* order, and the rendering is complete before the dispatch begins: no tool
\* is dispatched while a text segment of the turn is unrendered.
C17_RenderedBeforeAnyDispatch ==
    [][/\ Dispatched =>
             RenderedIn(TurnEvents) = TextsOf(message.content)
       /\ TurnOver' =>
             RenderedIn(TurnEvents') = TextsOf(message'.content)]_vars

\* C17, amended: the segments of a turn are worked through in the order
\* received, text and tool use interleaved.  At every point of the loop, and
\* when Run is through with the turn, the text segments rendered are exactly
\* those among the segments passed, once each and in order; and each handler
\* was started when exactly the text segments before its tool-use segment
\* had been rendered, the later ones still unrendered.
C17_RenderedInSegmentOrder ==
    (pc = "content" \/ TurnOver) =>
        /\ RenderedIn(TurnEvents)
             = TextsOf(SubSeq(message.content, 1, idx - 1))
        /\ \A k \in Positions(TurnEvents, "call") :
              RenderedIn(SubSeq(TurnEvents, 1, k))
                = TextsOf(SegmentsBefore(TurnEvents[k].x.id))

\* the first tool of a turn has been dispatched and the text segment that
\* follows it is not yet rendered
C17_Witness ==
    /\ pc = "content"
    /\ idx = 2
    /\ Len(message.content) = 3
    /\ Segment.type = "text"
    /\ CallsOfTurn = <<"t1">>
    /\ RenderedIn(TurnEvents) = <<>>

\* the number of times the user-message reader handed out a line
LinesRead == Cardinality(Positions(trace, "getUserMessage"))

\* C18: there is no cap on tool rounds.  Whether Run goes back to the user
\* when it is through with a reply depends on that reply only: after a reply
\* with a tool-use segment it does not await user input, however many rounds
\* came before, and after a reply without one it does; the user-message
\* reader is called only when Run awaits user input.
C18_NoCapOnToolRounds ==
    [][/\ (pc = "content" /\ pc' = "loop") =>
             /\ readUserInput' = (Len(ToolUses(message)) = 0)
             /\ ~readUserInput' => IsToolResultTurn(Last(conversation'))
       /\ ReaderCalled => readUserInput
       /\ (pc = "loop" /\ ~readUserInput /\ pc' # "loop") =>
             (pc' = "infer" /\ ~ReaderCalled /\ conversation' = conversation)]_vars

\* as many rounds of tool results in a row as the oracle was asked for
\* replies, after one line of the user, and Run is not awaiting user input
C18_Witness ==
    /\ pc = "loop"
    /\ ~readUserInput
    /\ nInfer = MaxInfer
    /\ LinesRead = 1
    /\ Len(conversation) = 2 * MaxInfer + 1
    /\ \A j \in 1..MaxInfer : IsToolResultTurn(conversation[2 * j + 1])

\* what this step adds to the trace
NewEvents == SubSeq(trace', Len(trace) + 1, Len(trace'))

\* the trace line of the tool call Run is at
TraceLine == Event("trace", [name |-> Segment.name, input |-> Segment.input])

\* C19 as stated: for every tool call the dispatcher receives, a trace line
\* with the name of the tool and its raw arguments is emitted, and for a
\* registered tool before the handler is invoked.
C19_TraceLineForEveryCall ==
    [][Dispatched =>
         /\ \E i \in 1..Len(NewEvents) : NewEvents[i] = TraceLine
         /\ \A k \in Positions(NewEvents, "call") :
               \E i \in 1..(k - 1) : NewEvents[i] = TraceLine]_vars

\* C19, amended: for every tool call that names a registered tool, exactly
\* one trace line with the name of the tool and its raw arguments is
\* emitted, and it is emitted right before the handler is invoked; for a
\* name that is not registered no trace line (and nothing else) is emitted.
C19_TraceLineForRegisteredTools ==
    [][Dispatched =>
         IF Segment.name \in Registered
         THEN /\ Len(NewEvents) >= 2
              /\ NewEvents[1] = TraceLine
              /\ NewEvents[2].ev = "call"
              /\ NewEvents[2].x.id = Segment.id
              /\ Positions(NewEvents, "trace") = {1}
              /\ Positions(NewEvents, "call") = {2}
         ELSE NewEvents = <<>>]_vars

\* an unregistered name was dispatched without a trace line, then the
\* registered list_files with one
C19_Witness ==
    /\ pc = "content"
    /\ idx = 3
    /\ Len(message.content) = 2
    /\ message.content[1].type = "tool_use"
    /\ message.content[1].name = "write_file"
    /\ Len(toolResults) = 2
    /\ Positions(TurnEvents, "trace") = {1}
    /\ TurnEvents[1].x.name = "list_files"
    /\ TurnEvents[2].ev = "call"

\* the lines the operator has entered that nobody has handed out yet, in the
\* order entered: those the scanner holds, then those still in os.Stdin
Pending == scanBuf \o stdin

\* C20: the user-message reader and the confirmation prompt consume one
\* stream of input lines without interfering: each of them takes the oldest
\* line not yet consumed and consumes exactly that line, so the answer to a
\* prompt is what the prompt reads and a line the reader has buffered is
\* not passed over by the prompt.
C20_OneInputStreamInOrder ==
    [][/\ \A k \in Positions(NewEvents, "scanln") :
             IF Pending = <<>>
             THEN NewEvents[k].x = <<>> /\ Pending' = <<>>
             ELSE NewEvents[k].x = Head(Pending) /\ Pending' = Tail(Pending)
       /\ \A k \in Positions(NewEvents, "getUserMessage") :
             /\ Pending # <<>>
             /\ NewEvents[k].x = Head(Pending)
             /\ Pending' = Tail(Pending)]_vars

====
